---- MODULE Spec2Model ----
(***************************************************************************)
(* Secret Santa: the assignment algorithm (algorithm/secretSanta.ts), the  *)
(* configuration loader (config/loadConfig.ts, utils/validators.ts) and    *)
(* the pipeline of SecretSantaApp (main -> constructor -> run).            *)
(*                                                                         *)
(* Strings whose characters matter (names, emails, descriptions) are       *)
(* sequences of one-character strings.  JavaScript indexes are 0-based;    *)
(* the element at JavaScript index k of an array is element k+1 of the     *)
(* sequence that models it.                                                *)
(***************************************************************************)
EXTENDS Integers, Sequences, FiniteSets, TLC

\* Longest participant list a configuration file holds (pipeline runs).
MaxLen == 3
\* Longest participant list handed directly to assign.
MaxAssignLen == 4
\* Longest participant list of a file handed directly to loadConfig, and the
\* number of times the same file is loaded.
MaxLoadLen == 3
MaxLoads == 2
\* Number of distinct encryptName / encryptEmail calls made on the instances
\* of LogEncryption.
MaxCalls == 3
\* Direct calls of sendSecretSantaEmail made in one behaviour.
MaxMails == 2

VARIABLES
    isDryRun,          \* SecretSantaApp.isDryRun
    shouldSkipImages,  \* SecretSantaApp.shouldSkipImages
    env,               \* names of the process.env entries with a truthy value
    configFile,        \* config/participants.json
    outputDir,         \* files of <cwd>/output
    emailService,      \* SecretSantaApp.emailService: "null" or "EmailService"
    pc,                \* position of main / run
    config,            \* run: const config (its participants)
    assignments,       \* the list returned by performAssignment
    i,                 \* loop index of processAllAssignments (0-based)
    message,           \* processAssignment: const message
    imageBuffer,       \* processAssignment: const imageBuffer
    log,               \* every collaborator call and file-system effect, in order
    error,             \* the error caught by main
    exitCode,          \* process exit status ("running" until the process ends)
    callInput,         \* a direct call of assign: its argument
    callResult,        \* a direct call of assign: what it returned or threw
    callState,         \* direct calls of assign: "idle" | "ready" | "returned" | "returned again"
    loads,             \* direct calls of loadConfig: what each returned or threw
    encryption,        \* the instances of LogEncryption: secretKey given, key, cache
    returned,          \* the encryptName / encryptEmail calls made, with their results
    mapping,           \* what the latest getMapping call returned, and on which instance
    outbox             \* direct calls of sendSecretSantaEmail: what each handed to sgMail.send

vars == <<isDryRun, shouldSkipImages, env, configFile, outputDir, emailService,
          pc, config, assignments, i, message, imageBuffer, log, error, exitCode,
          callInput, callResult, callState, loads, encryption, returned, mapping,
          outbox>>

pipelineVars == <<isDryRun, shouldSkipImages, env, configFile, outputDir,
                  emailService, pc, config, assignments, i, message, imageBuffer,
                  log, error, exitCode>>

encryptionVars == <<encryption, returned, mapping>>

callVars == <<callInput, callResult, callState, loads, encryption, returned, mapping,
              outbox>>

----------------------------------------------------------------------------
(* Participants *)

Participant(name, email, description) ==
    [name |-> name, email |-> email, description |-> description]

An  == Participant(<<"a", "n">>, <<"a", "@", "x">>, <<"t", "e", "a">>)
Bo  == Participant(<<"b", "o">>, <<"b", "@", "x">>, <<"s", "k", "i">>)
Jo1 == Participant(<<"j", "-", "o">>, <<"j", "@", "x">>, <<"a", "r", "t">>)
Jo2 == Participant(<<"j", "_", "o">>, <<"o", "@", "x">>, <<"j", "a", "m">>)
\* shares the name of An, differs in every other field
An2 == Participant(<<"a", "n">>, <<"n", "@", "y">>, <<"p", "i", "e">>)
Cy  == Participant(<<"c", "y">>, <<"c", "@", "x">>, <<"g", "o">>)

\* The participants configuration files are written from, in a fixed order.
Pool == <<An, Bo, Jo1, Jo2, An2>>

\* The participants direct calls of assign are made with.
AssignPool == {An, Bo, Jo1, Jo2, An2, Cy}

\* An optional array argument: present with its items, or undefined/null.
Some(items) == [present |-> TRUE, items |-> items]
Missing == [present |-> FALSE, items |-> <<>>]

SeqsUpTo(S, n) == UNION {[1..k -> S] : k \in 0..n}

Min(S) == CHOOSE x \in S : \A y \in S : x <= y
Max(S) == CHOOSE x \in S : \A y \in S : x >= y

----------------------------------------------------------------------------
(* algorithm/secretSanta.ts *)

AtLeast3Error == "At least 3 participants are required for Secret Santa"
DuplicateError == "Duplicate participant names are not allowed"

\* validateInput with the bound off by one (length < 2).
validateInputMin2(participants) ==
    IF ~participants.present \/ Len(participants.items) < 2
    THEN AtLeast3Error
    ELSE LET names == [k \in 1..Len(participants.items) |-> participants.items[k].name]
             uniqueNames == {names[k] : k \in 1..Len(names)}
         IN  IF Len(names) # Cardinality(uniqueNames)
             THEN DuplicateError
             ELSE "ok"

\* validateInput looking for duplicate participants instead of duplicate names.
validateInputByRecord(participants) ==
    IF ~participants.present \/ Len(participants.items) < 3
    THEN AtLeast3Error
    ELSE LET uniqueParticipants == {participants.items[k] : k \in 1..Len(participants.items)}
         IN  IF Len(participants.items) # Cardinality(uniqueParticipants)
             THEN DuplicateError
             ELSE "ok"

\* validateInput: the message of the error it throws, or "ok".
validateInput(participants) ==
    IF ~participants.present \/ Len(participants.items) < 3
    THEN AtLeast3Error
    ELSE LET names == [k \in 1..Len(participants.items) |-> participants.items[k].name]
             uniqueNames == {names[k] : k \in 1..Len(names)}
         IN  IF Len(names) # Cardinality(uniqueNames)
             THEN DuplicateError
             ELSE "ok"

\* The index drawn from the whole array at every step.
RandomChoicesFullRange(n) == [1..(n - 1) -> 0..(n - 1)]

\* The outcomes of Math.floor(Math.random() * (i + 1)) for i = n-1 down to 1:
\* rnd[i] is the index j drawn at step i, 0 <= j <= i.
RandomChoices(n) == {rnd \in [1..(n - 1) -> 0..(n - 1)] : \A k \in 1..(n - 1) : rnd[k] <= k}

\* [result[i], result[j]] = [result[j], result[i]]   (i, j are 0-based)
Swap(result, a, b) ==
    [k \in 1..Len(result) |->
        IF k = a + 1 THEN result[b + 1]
        ELSE IF k = b + 1 THEN result[a + 1]
        ELSE result[k]]

RECURSIVE ShuffleFrom(_, _, _)
ShuffleFrom(result, k, rnd) ==
    IF k > 0 THEN ShuffleFrom(Swap(result, k, rnd[k]), k - 1, rnd) ELSE result

\* The loop stopping at i > 1: the first two elements are never swapped with
\* each other.
shuffleStopsEarly(array, rnd) ==
    IF Len(array) < 2 THEN array
    ELSE ShuffleFrom(array, Len(array) - 1, [rnd EXCEPT ![1] = 1])

\* Fisher-Yates shuffle of a copy of the array.
shuffle(array, rnd) == ShuffleFrom(array, Len(array) - 1, rnd)

\* The cycle closed one position early: the last two gifters share a giftee.
GifteeIndexShort(k, n) == (k + 1) % (n - 1)

\* Every gifter paired with the participant two positions on: two cycles of
\* two when there are four participants.
GifteeIndexSkip(k, n) == (k + 2) % n

\* The giftee of the gifter at 0-based position k of the shuffled list.
GifteeIndex(k, n) == (k + 1) % n

\* assign without its input validation: any list is shuffled and paired.
assignUnvalidated(participants, rnd) ==
    LET shuffled == shuffle(participants.items, rnd)
        n == Len(shuffled)
    IN  [ok |-> TRUE, error |-> "none",
         assignments |->
             [k \in 1..n |->
                 [gifter |-> shuffled[k],
                  giftee |-> shuffled[GifteeIndex(k - 1, n) + 1]]]]

\* assign: either throws (ok = FALSE, error = the message) or returns the
\* assignments.  rnd is used only when the input is valid.
assign(participants, rnd) ==
    LET verdict == validateInput(participants)
    IN  IF verdict # "ok"
        THEN [ok |-> FALSE, error |-> verdict, assignments |-> <<>>]
        ELSE LET shuffled == shuffle(participants.items, rnd)
                 n == Len(shuffled)
             IN  [ok |-> TRUE, error |-> "none",
                  assignments |->
                      [k \in 1..n |->
                          [gifter |-> shuffled[k],
                           giftee |-> shuffled[GifteeIndex(k - 1, n) + 1]]]]

\* The number of items of an optional array (0 when it is missing).
ItemCount(participants) == IF participants.present THEN Len(participants.items) ELSE 0

----------------------------------------------------------------------------
(* Direct calls of assign *)

NoResult == [ok |-> FALSE, error |-> "not called", assignments |-> <<>>]

CallInputs == {Missing} \cup {Some(items) : items \in SeqsUpTo(AssignPool, MaxAssignLen)}

\* The list with its elements Fisher-Yates shuffled in place: what the caller
\* would hold if assign handed its own array to a shuffle that swaps in it.
InputShuffledInPlace(participants, rnd) ==
    IF validateInput(participants) = "ok"
    THEN Some(shuffle(participants.items, rnd))
    ELSE participants

\* The caller's array once assign has returned or thrown.  validateInput only
\* reads it, assign hands shuffle the copy [...participants], and shuffle swaps
\* inside its own copy [...array]: no element of the caller's array is assigned.
InputAfterAssign(participants, rnd) == participants

\* The random numbers a call of assign draws: those of the shuffle, and none
\* when validateInput throws before it.
ShuffleChoices(participants) ==
    IF validateInput(participants) = "ok"
    THEN RandomChoices(Len(participants.items))
    ELSE {<<>>}

\* algorithm.assign(participants), and a second call on the same array
CallAssign ==
    /\ callState \in {"ready", "returned"}
    /\ \E rnd \in ShuffleChoices(callInput) :
           /\ callResult' = assign(callInput, rnd)
           /\ callInput' = InputAfterAssign(callInput, rnd)
    /\ callState' = IF callState = "ready" THEN "returned" ELSE "returned again"
    /\ UNCHANGED <<pipelineVars, loads, encryptionVars, outbox>>

----------------------------------------------------------------------------
(* utils/validators.ts and config/loadConfig.ts *)

\* s.trim()
Trim(s) ==
    LET kept == {k \in 1..Len(s) : s[k] # " "}
    IN  IF kept = {} THEN <<>> ELSE SubSeq(s, Min(kept), Max(kept))

\* validator.isEmail, reduced to: one "@", with text before and after it.
validateEmail(email) ==
    LET ats == {k \in 1..Len(email) : email[k] = "@"}
    IN  /\ Cardinality(ats) = 1
        /\ \A k \in ats : 1 < k /\ k < Len(email)
        /\ \A k \in 1..Len(email) : email[k] # " "

\* validateParticipant: the message of the error it throws, or "ok".
validateParticipant(participant) ==
    IF Len(participant.name) = 0 \/ Len(Trim(participant.name)) = 0
    THEN "Participant name cannot be empty"
    ELSE IF Len(participant.email) = 0 \/ Len(Trim(participant.email)) = 0
    THEN "Participant email cannot be empty"
    ELSE IF ~validateEmail(participant.email)
    THEN "Invalid email address"
    ELSE IF Len(participant.description) = 0 \/ Len(Trim(participant.description)) = 0
    THEN "Participant description cannot be empty"
    ELSE "ok"

\* Only the first participant of the list validated.
validateParticipantsFirstOnly(participants) ==
    IF ~participants.present \/ Len(participants.items) = 0
    THEN "Participants list cannot be empty"
    ELSE validateParticipant(participants.items[1])

\* validateParticipants: the error of the first participant that fails.
validateParticipants(participants) ==
    IF ~participants.present \/ Len(participants.items) = 0
    THEN "Participants list cannot be empty"
    ELSE LET bad == {k \in 1..Len(participants.items) :
                        validateParticipant(participants.items[k]) # "ok"}
         IN  IF bad = {} THEN "ok"
             ELSE validateParticipant(participants.items[Min(bad)])

\* A configuration file: absent, not JSON, or JSON with an optional
\* "participants" array.
ConfigFile(state, participants) == [state |-> state, participants |-> participants]

\* loadConfig: throws "Failed to load configuration: <cause>" (or "Invalid JSON
\* in configuration file"), or returns the participants of the file.
loadConfig(file) ==
    IF file.state = "absent"
    THEN [ok |-> FALSE, error |-> "Failed to load configuration",
          cause |-> "Configuration file not found", participants |-> <<>>]
    ELSE IF file.state = "malformed"
    THEN [ok |-> FALSE, error |-> "Invalid JSON in configuration file",
          cause |-> "SyntaxError", participants |-> <<>>]
    ELSE IF ~file.participants.present
    THEN [ok |-> FALSE, error |-> "Failed to load configuration",
          cause |-> "Configuration must contain a \"participants\" array",
          participants |-> <<>>]
    ELSE IF validateParticipants(file.participants) # "ok"
    THEN [ok |-> FALSE, error |-> "Failed to load configuration",
          cause |-> validateParticipants(file.participants), participants |-> <<>>]
    ELSE [ok |-> TRUE, error |-> "none", cause |-> "none",
          participants |-> file.participants.items]

----------------------------------------------------------------------------
(* utils/encryption.ts *)

\* The characters of the keys, names and emails that are hashed, and the
\* code of each.
Alphabet == <<"a", "b", "c", "k", "n", "o", "p", "r", "t", "x", "1", "2", "_", "@">>
Code(c) == CHOOSE k \in 1..Len(Alphabet) : Alphabet[k] = c

RECURSIVE Weighted(_)
Weighted(str) == IF str = <<>> THEN 0 ELSE Len(str) * Code(str[Len(str)]) + Weighted(SubSeq(str, 1, Len(str) - 1))

HexDigits == <<"0", "1", "2", "3", "4", "5", "6", "7", "8", "9", "a", "b", "c", "d", "e", "f">>
\* The digits substring(0, 8) keeps of the digest, and the length of the
\* digest, which is longer than the part kept.
HashLen == 8
DigestLen == HashLen + HashLen

\* crypto.createHmac('sha256', key).update(data).digest('hex'): a keyed hash,
\* here d hexadecimal digits that each depend on the key and on the data.
createHmac(key, data) ==
    [d \in 1..DigestLen |->
        HexDigits[((Weighted(key) * d + Weighted(data) * (d + 1) + d * d) % Len(HexDigits)) + 1]]

UpperCase == [c \in {"a", "b", "c", "d", "e", "f"} |->
                 CASE c = "a" -> "A" [] c = "b" -> "B" [] c = "c" -> "C"
                   [] c = "d" -> "D" [] c = "e" -> "E" [] c = "f" -> "F"]
toUpperCase(str) == [k \in 1..Len(str) |-> IF str[k] \in DOMAIN UpperCase THEN UpperCase[str[k]] ELSE str[k]]
toLowerCase(str) ==
    [k \in 1..Len(str) |->
        IF \E c \in DOMAIN UpperCase : UpperCase[c] = str[k]
        THEN CHOOSE c \in DOMAIN UpperCase : UpperCase[c] = str[k]
        ELSE str[k]]

EmptyMask == <<"[", "E", "M", "P", "T", "Y", "]">>

\* The key given to the constructor ignored: every instance has a random key.
instanceKeyAlwaysRandom(secretKey, random) == random

\* this.key = secretKey || crypto.randomBytes(32).toString('hex'): the key
\* given when it is a non-empty string, else the random one.
instanceKey(secretKey, random) ==
    IF secretKey.present /\ Len(secretKey.items) > 0 THEN secretKey.items ELSE random

\* new LogEncryption(secretKey)
LogEncryption(secretKey, random) ==
    [secretKey |-> secretKey, key |-> instanceKey(secretKey, random), cache |-> <<>>]

\* encryptName without its first line: the empty name is hashed and cached
\* like any other.
encryptNameHashingEmpty(self, name) ==
    IF name \in DOMAIN self.cache
    THEN [result |-> self.cache[name], cache |-> self.cache]
    ELSE LET hash == toUpperCase(SubSeq(createHmac(self.key, name), 1, HashLen))
             encrypted == <<"[", "U", "S", "E", "R", "-">> \o hash \o <<"]">>
         IN  [result |-> encrypted, cache |-> self.cache @@ (name :> encrypted)]

\* encryptName: the value returned and the cache after the call.
encryptName(self, name) ==
    IF name = <<>>
    THEN [result |-> EmptyMask, cache |-> self.cache]
    ELSE IF name \in DOMAIN self.cache
    THEN [result |-> self.cache[name], cache |-> self.cache]
    ELSE LET hash == toUpperCase(SubSeq(createHmac(self.key, name), 1, HashLen))
             encrypted == <<"[", "U", "S", "E", "R", "-">> \o hash \o <<"]">>
         IN  [result |-> encrypted, cache |-> self.cache @@ (name :> encrypted)]

\* encryptEmail: the value returned (the cache is not touched).
encryptEmail(self, email) ==
    IF email = <<>>
    THEN EmptyMask
    ELSE LET hash == toLowerCase(SubSeq(createHmac(self.key, email), 1, HashLen))
         IN  <<"*", "*", "*", "@">> \o hash \o <<".", "m", "a", "s", "k", "e", "d">>

\* The property name an assignment to a plain object does not create: the
\* setter inherited from Object.prototype takes it and drops a string value.
ProtoName == <<"_", "_", "p", "r", "o", "t", "o", "_", "_">>

\* getMapping: the object filled by mapping[original] = encrypted for every
\* entry of the cache, as the set of its own (name, value) properties.
getMapping(self) ==
    {<<original, self.cache[original]>> : original \in DOMAIN self.cache \ {ProtoName}}

\* No getMapping call made yet.
NoMapping == [inst |-> 0, entries |-> {}]

----------------------------------------------------------------------------
(* SecretSantaApp: values *)

EnvVars == {"OPENAI_API_KEY", "SENDGRID_API_KEY", "SENDGRID_FROM"}

\* The texts the message-generation service returns.
Texts == {"ho", "hi"}

\* What the provider's completion can hold: a text, or nothing.
Completions == Texts \cup {""}

\* llmService.generateMessage once the provider has answered: the text of the
\* completion, which must be non-empty or the step fails.
EmptyTextError == "No message generated"
llmGenerateMessage(completion) ==
    IF completion = ""
    THEN [ok |-> FALSE, error |-> EmptyTextError, text |-> ""]
    ELSE [ok |-> TRUE, error |-> "none", text |-> completion]

\* Buffer.alloc(0) and the bytes of a generated picture.
EmptyBuffer == <<>>
Png == <<"P", "N", "G">>
Images == {EmptyBuffer, Png}

\* The strings handed to a call.
Strings(args) == {args[k] : k \in 1..Len(args)}

\* An error: its kind, the settings validateEnv lists, and the strings its
\* text can mention.  EmailService.sendEmail puts the recipient in the text;
\* the other collaborators are not under src/, and their errors, which run
\* rethrows as they are, can mention at most the arguments of the failed call.
NoError == [kind |-> "none", missing |-> <<>>, mentions |-> {}]
Error(kind, missing, mentions) == [kind |-> kind, missing |-> missing, mentions |-> mentions]

\* One entry of the log: a collaborator call or a file-system effect.
\* idx is the 0-based index of the assignment in progress, -1 outside the loop.
Ev(op, idx, ok, args, text, bytes) ==
    [op |-> op, idx |-> idx, ok |-> ok, args |-> args, text |-> text, bytes |-> bytes]

\* Characters matched by /[a-z0-9]/i.
AlphaNumeric == {"a", "b", "c", "j", "n", "o", "y"}

\* gifter.name.replace(/[^a-z0-9]/gi, '_')
sanitizedName(name) ==
    [k \in 1..Len(name) |-> IF name[k] \in AlphaNumeric THEN name[k] ELSE "_"]

\* A file of the output directory.  run tells which run wrote it.
File(base, suffix, run, gifter, giftee, text, bytes) ==
    [base |-> base, suffix |-> suffix, run |-> run, from |-> gifter.name,
     email |-> gifter.email, drawn |-> giftee.name, text |-> text, bytes |-> bytes]

\* fs.writeFileSync: creates the file or replaces the file of that path.
writeFileSync(dir, file) ==
    {f \in dir : ~(f.base = file.base /\ f.suffix = file.suffix)} \cup {file}

\* What an earlier run may have left in the output directory.
StaleFile == File(<<"b", "o">>, "_message.txt", "earlier", Bo, An, "old", EmptyBuffer)

\* Configuration files list participants in the order of Pool.
Ascending(s) == \A k \in 1..(Len(s) - 1) : s[k] <= s[k + 1]
ConfigLists ==
    {[k \in 1..Len(s) |-> Pool[s[k]]] :
        s \in {t \in SeqsUpTo(1..Len(Pool), MaxLen) : Ascending(t)}}
ConfigFiles ==
    {ConfigFile("absent", Missing), ConfigFile("malformed", Missing),
     ConfigFile("json", Missing)}
    \cup {ConfigFile("json", Some(items)) : items \in ConfigLists}

----------------------------------------------------------------------------
(* SecretSantaApp: main, constructor, run *)

\* validateEnv: the required variables, in the order the code lists them.
required(dryRun) ==
    IF dryRun THEN <<"OPENAI_API_KEY">>
    ELSE <<"OPENAI_API_KEY", "SENDGRID_API_KEY", "SENDGRID_FROM">>

\* validateEnv: required.filter(key => !process.env[key])
IsUnset(key) == key \notin env

\* The gate reporting only the first required setting that is absent.
missingFirstOnly(dryRun) ==
    LET absent == SelectSeq(required(dryRun), IsUnset)
    IN  IF absent = <<>> THEN <<>> ELSE <<Head(absent)>>

\* validateEnv: const missing = required.filter(...)
missing(dryRun) == SelectSeq(required(dryRun), IsUnset)

\* The e-mail service created whatever the mode.
emailServiceAlways(dryRun) == "EmailService"

\* constructor: this.emailService = isDryRun ? null : this.createEmailService()
emailServiceFor(dryRun) == IF dryRun THEN "null" ELSE "EmailService"

\* main without process.exit(1): the error is reported and the process ends
\* with status 0.
ThrowExitZero(err) ==
    /\ error' = err
    /\ exitCode' = 0
    /\ pc' = "exited"

\* The error is recorded and the process stays alive without an exit status.
ThrowAndHang(err) ==
    /\ error' = err
    /\ pc' = "failed"
    /\ UNCHANGED exitCode

\* main's catch: the error is reported and the process exits with status 1.
Throw(err) ==
    /\ error' = err
    /\ exitCode' = 1
    /\ pc' = "exited"

\* The list walked from its end.
CurrentReversed == assignments[Len(assignments) - i]

\* assignments[i] of processAllAssignments
Current == assignments[i + 1]

\* new SecretSantaApp(isDryRun, shouldSkipImages)
Construct ==
    /\ pc = "main"
    /\ \/ /\ Len(missing(isDryRun)) > 0
          /\ Throw(Error("Missing required environment variables", missing(isDryRun), {}))
          /\ UNCHANGED emailService
       \/ /\ Len(missing(isDryRun)) = 0
          /\ emailService' = emailServiceFor(isDryRun)
          /\ pc' = "run"
          /\ UNCHANGED <<error, exitCode>>
    /\ UNCHANGED <<isDryRun, shouldSkipImages, env, configFile, outputDir, config,
                   assignments, i, message, imageBuffer, log, callVars>>

\* run clearing the output directory whatever the mode is.
PrepareOutputDirectoryAlways ==
    /\ pc = "run"
    /\ outputDir' = {}
    /\ log' = Append(log, Ev("prepareOutputDirectory", -1, TRUE, <<>>, "", EmptyBuffer))
    /\ pc' = "loadConfiguration"
    /\ UNCHANGED <<isDryRun, shouldSkipImages, env, configFile, emailService, config,
                   assignments, i, message, imageBuffer, error, exitCode, callVars>>

\* prepareOutputDirectory without rmSync: the directory is made if absent and
\* what it holds is kept.
PrepareOutputDirectoryKeepingFiles ==
    /\ pc = "run"
    /\ \/ /\ isDryRun
          /\ log' = Append(log, Ev("prepareOutputDirectory", -1, TRUE, <<>>, "", EmptyBuffer))
          /\ UNCHANGED outputDir
       \/ /\ ~isDryRun
          /\ UNCHANGED <<outputDir, log>>
    /\ pc' = "loadConfiguration"
    /\ UNCHANGED <<isDryRun, shouldSkipImages, env, configFile, emailService, config,
                   assignments, i, message, imageBuffer, error, exitCode, callVars>>

\* run: printHeader, then prepareOutputDirectory in a dry run
PrepareOutputDirectory ==
    /\ pc = "run"
    /\ \/ /\ isDryRun
          /\ outputDir' = {}
          /\ log' = Append(log, Ev("prepareOutputDirectory", -1, TRUE, <<>>, "", EmptyBuffer))
       \/ /\ ~isDryRun
          /\ UNCHANGED <<outputDir, log>>
    /\ pc' = "loadConfiguration"
    /\ UNCHANGED <<isDryRun, shouldSkipImages, env, configFile, emailService, config,
                   assignments, i, message, imageBuffer, error, exitCode, callVars>>

\* run: const config = this.loadConfiguration()
LoadConfiguration ==
    /\ pc = "loadConfiguration"
    /\ LET loaded == loadConfig(configFile)
       IN  \/ /\ ~loaded.ok
              /\ Throw(Error(loaded.error, <<>>, {}))
              /\ UNCHANGED config
           \/ /\ loaded.ok
              /\ config' = loaded.participants
              /\ pc' = "verifySmtpIfNeeded"
              /\ UNCHANGED <<error, exitCode>>
    /\ UNCHANGED <<isDryRun, shouldSkipImages, env, configFile, outputDir, emailService,
                   assignments, i, message, imageBuffer, log, callVars>>

\* verifySmtpIfNeeded with the failure of verifyConnection caught and
\* ignored.
VerifySmtpIgnoringFailure ==
    /\ pc = "verifySmtpIfNeeded"
    /\ \/ /\ emailService = "null"
          /\ UNCHANGED log
       \/ /\ emailService # "null"
          /\ \E sgMail \in BOOLEAN :
                log' = Append(log, Ev("verifyConnection", -1, sgMail, <<>>, "", EmptyBuffer))
    /\ pc' = "performAssignment"
    /\ UNCHANGED <<isDryRun, shouldSkipImages, env, configFile, outputDir, emailService,
                   config, assignments, i, message, imageBuffer, error, exitCode, callVars>>

\* run: await verifySmtpIfNeeded.  EmailService.verifyConnection throws when the
\* SendGrid client (the module binding sgMail) is not there.
VerifySmtpIfNeeded ==
    /\ pc = "verifySmtpIfNeeded"
    /\ \/ /\ emailService = "null"
          /\ pc' = "performAssignment"
          /\ UNCHANGED <<log, error, exitCode>>
       \/ /\ emailService # "null"
          /\ \E sgMail \in BOOLEAN :
                \/ /\ sgMail
                   /\ log' = Append(log, Ev("verifyConnection", -1, TRUE, <<>>, "", EmptyBuffer))
                   /\ pc' = "performAssignment"
                   /\ UNCHANGED <<error, exitCode>>
                \/ /\ ~sgMail
                   /\ log' = Append(log, Ev("verifyConnection", -1, FALSE, <<>>, "", EmptyBuffer))
                   /\ Throw(Error("SendGrid connection failed", <<>>, {}))
    /\ UNCHANGED <<isDryRun, shouldSkipImages, env, configFile, outputDir, emailService,
                   config, assignments, i, message, imageBuffer, callVars>>

\* run: performAssignment(config.participants)
PerformAssignment ==
    /\ pc = "performAssignment"
    /\ LET participants == Some(config)
       IN  \E rnd \in RandomChoices(ItemCount(participants)) :
              LET result == assign(participants, rnd)
              IN  \/ /\ ~result.ok
                     /\ Throw(Error(result.error, <<>>, {}))
                     /\ UNCHANGED assignments
                  \/ /\ result.ok
                     /\ assignments' = result.assignments
                     /\ pc' = "generateMessage"
                     /\ UNCHANGED <<error, exitCode>>
    /\ UNCHANGED <<isDryRun, shouldSkipImages, env, configFile, outputDir, emailService,
                   config, i, message, imageBuffer, log, callVars>>

\* The loop ending one assignment early: no delay after the last but one.
AfterAssignmentShort ==
    IF i < Len(assignments) - 2
    THEN pc' = "delayBetweenRequests" /\ UNCHANGED <<error, exitCode>>
    ELSE pc' = "exited" /\ exitCode' = 0 /\ UNCHANGED error

\* processAllAssignments after processAssignment returned: the delay when
\* another assignment follows, else run's printSuccess and the end of main.
AfterAssignment ==
    IF i < Len(assignments) - 1
    THEN pc' = "delayBetweenRequests" /\ UNCHANGED <<error, exitCode>>
    ELSE pc' = "exited" /\ exitCode' = 0 /\ UNCHANGED error

\* The loop catching the failure of an assignment and going on with the next.
GenerateMessageSkipOnFailure ==
    /\ pc = "generateMessage"
    /\ LET args == <<Current.gifter.name, Current.giftee.name, Current.giftee.description>>
       IN  \/ /\ log' = Append(log, Ev("generateMessage", i, FALSE, args, "", EmptyBuffer))
              /\ AfterAssignment
              /\ UNCHANGED message
           \/ \E text \in Texts :
                 /\ log' = Append(log, Ev("generateMessage", i, TRUE, args, text, EmptyBuffer))
                 /\ message' = text
                 /\ pc' = "generateImage"
                 /\ UNCHANGED <<error, exitCode>>
    /\ UNCHANGED <<isDryRun, shouldSkipImages, env, configFile, outputDir, emailService,
                   config, assignments, i, imageBuffer, callVars>>

\* A rejected call of the provider tried a second time before giving up.
GenerateMessageRetryOnce ==
    /\ pc = "generateMessage"
    /\ LET args == <<Current.gifter.name, Current.giftee.name, Current.giftee.description>>
           failed == Ev("generateMessage", i, FALSE, args, "", EmptyBuffer)
       IN  \/ /\ \A k \in 1..Len(log) : log[k] # failed
              /\ log' = Append(log, failed)
              /\ UNCHANGED <<message, pc, error, exitCode>>
           \/ /\ \E k \in 1..Len(log) : log[k] = failed
              /\ log' = Append(log, failed)
              /\ Throw(Error("generateMessage failed", <<>>, Strings(args)))
              /\ UNCHANGED message
           \/ \E text \in Texts :
                 /\ log' = Append(log, Ev("generateMessage", i, TRUE, args, text, EmptyBuffer))
                 /\ message' = text
                 /\ pc' = "generateImage"
                 /\ UNCHANGED <<error, exitCode>>
    /\ UNCHANGED <<isDryRun, shouldSkipImages, env, configFile, outputDir, emailService,
                   config, assignments, i, imageBuffer, callVars>>

\* generateMessage handing on whatever text the completion holds, the empty
\* text included.
GenerateMessagePassingAnyText ==
    /\ pc = "generateMessage"
    /\ LET args == <<Current.gifter.name, Current.giftee.name, Current.giftee.description>>
       IN  \/ /\ log' = Append(log, Ev("generateMessage", i, FALSE, args, "", EmptyBuffer))
              /\ Throw(Error("generateMessage failed", <<>>, Strings(args)))
              /\ UNCHANGED message
           \/ \E completion \in Completions :
                 /\ log' = Append(log, Ev("generateMessage", i, TRUE, args, completion, EmptyBuffer))
                 /\ message' = completion
                 /\ pc' = "generateImage"
                 /\ UNCHANGED <<error, exitCode>>
    /\ UNCHANGED <<isDryRun, shouldSkipImages, env, configFile, outputDir, emailService,
                   config, assignments, i, imageBuffer, callVars>>

\* processAssignment: await this.generateMessage(gifter.name, giftee.name, giftee.description)
\* The call of the provider rejects, or it resolves with a completion that
\* llmService.generateMessage hands on or refuses.
GenerateMessage ==
    /\ pc = "generateMessage"
    /\ LET args == <<Current.gifter.name, Current.giftee.name, Current.giftee.description>>
       IN  \/ /\ log' = Append(log, Ev("generateMessage", i, FALSE, args, "", EmptyBuffer))
              /\ Throw(Error("generateMessage failed", <<>>, Strings(args)))
              /\ UNCHANGED message
           \/ \E completion \in Completions :
                 LET reply == llmGenerateMessage(completion)
                 IN  \/ /\ ~reply.ok
                        /\ log' = Append(log, Ev("generateMessage", i, FALSE, args, "",
                                                 EmptyBuffer))
                        /\ Throw(Error(reply.error, <<>>, Strings(args)))
                        /\ UNCHANGED message
                     \/ /\ reply.ok
                        /\ log' = Append(log, Ev("generateMessage", i, TRUE, args, reply.text,
                                                 EmptyBuffer))
                        /\ message' = reply.text
                        /\ pc' = "generateImage"
                        /\ UNCHANGED <<error, exitCode>>
    /\ UNCHANGED <<isDryRun, shouldSkipImages, env, configFile, outputDir, emailService,
                   config, assignments, i, imageBuffer, callVars>>

\* processAssignment asking for the image whatever shouldSkipImages is.
GenerateImageAlways ==
    /\ pc = "generateImage"
    /\ LET args == <<Current.giftee.description>>
       IN  \/ /\ log' = Append(log, Ev("generateImage", i, FALSE, args, "", EmptyBuffer))
              /\ Throw(Error("generateImage failed", <<>>, Strings(args)))
              /\ UNCHANGED imageBuffer
           \/ \E bytes \in Images :
                 /\ log' = Append(log, Ev("generateImage", i, TRUE, args, "", bytes))
                 /\ imageBuffer' = bytes
                 /\ pc' = "sendOrPreview"
                 /\ UNCHANGED <<error, exitCode>>
    /\ UNCHANGED <<isDryRun, shouldSkipImages, env, configFile, outputDir, emailService,
                   config, assignments, i, message, callVars>>

\* The failure of the image generation caught: the assignment goes on to its
\* delivery with an empty image.
GenerateImageSwallowFailure ==
    /\ pc = "generateImage"
    /\ LET args == <<Current.giftee.description>>
       IN  \/ /\ shouldSkipImages
              /\ imageBuffer' = EmptyBuffer
              /\ UNCHANGED log
           \/ /\ ~shouldSkipImages
              /\ log' = Append(log, Ev("generateImage", i, FALSE, args, "", EmptyBuffer))
              /\ imageBuffer' = EmptyBuffer
           \/ /\ ~shouldSkipImages
              /\ \E bytes \in Images :
                    /\ log' = Append(log, Ev("generateImage", i, TRUE, args, "", bytes))
                    /\ imageBuffer' = bytes
    /\ pc' = "sendOrPreview"
    /\ UNCHANGED <<isDryRun, shouldSkipImages, env, configFile, outputDir, emailService,
                   config, assignments, i, message, error, exitCode, callVars>>

\* processAssignment: shouldSkipImages ? Buffer.alloc(0) : await this.generateImage(...)
GenerateImage ==
    /\ pc = "generateImage"
    /\ LET args == <<Current.giftee.description>>
       IN  \/ /\ shouldSkipImages
              /\ imageBuffer' = EmptyBuffer
              /\ pc' = "sendOrPreview"
              /\ UNCHANGED <<log, error, exitCode>>
           \/ /\ ~shouldSkipImages
              /\ log' = Append(log, Ev("generateImage", i, FALSE, args, "", EmptyBuffer))
              /\ Throw(Error("generateImage failed", <<>>, Strings(args)))
              /\ UNCHANGED imageBuffer
           \/ /\ ~shouldSkipImages
              /\ \E bytes \in Images :
                    /\ log' = Append(log, Ev("generateImage", i, TRUE, args, "", bytes))
                    /\ imageBuffer' = bytes
                    /\ pc' = "sendOrPreview"
                    /\ UNCHANGED <<error, exitCode>>
    /\ UNCHANGED <<isDryRun, shouldSkipImages, env, configFile, outputDir, emailService,
                   config, assignments, i, message, callVars>>

\* The image file written whenever images are not skipped, an empty one too.
savesImageUnlessSkipped(skip, bytes) == ~skip

\* saveToFiles: if (!this.shouldSkipImages && imageBuffer.length > 0)
savesImage(skip, bytes) == ~skip /\ Len(bytes) > 0

\* sendOrPreview in a dry run: saveToFiles
SaveToFiles ==
    /\ pc = "sendOrPreview"
    /\ isDryRun
    /\ LET gifter == Current.gifter
           giftee == Current.giftee
           base == sanitizedName(gifter.name)
           messageFile == File(base, "_message.txt", "this", gifter, giftee, message, EmptyBuffer)
           imageFile == File(base, "_image.png", "this", gifter, giftee, "", imageBuffer)
           wroteMessage == Ev("writeFile", i, TRUE, <<base, "_message.txt">>, message, EmptyBuffer)
           wroteImage == Ev("writeFile", i, TRUE, <<base, "_image.png">>, "", imageBuffer)
           saved == Ev("saveToFiles", i, TRUE, <<gifter.email>>, message, imageBuffer)
           failed == Ev("saveToFiles", i, FALSE, <<gifter.email>>, message, imageBuffer)
       IN  \/ \* writing the message file throws
              /\ log' = Append(log, failed)
              /\ Throw(Error("writeFileSync failed", <<>>, {base}))
              /\ UNCHANGED outputDir
           \/ \* no image to save
              /\ ~savesImage(shouldSkipImages, imageBuffer)
              /\ outputDir' = writeFileSync(outputDir, messageFile)
              /\ log' = log \o <<wroteMessage, saved>>
              /\ AfterAssignment
           \/ \* writing the image file throws
              /\ savesImage(shouldSkipImages, imageBuffer)
              /\ outputDir' = writeFileSync(outputDir, messageFile)
              /\ log' = log \o <<wroteMessage, failed>>
              /\ Throw(Error("writeFileSync failed", <<>>, {base}))
           \/ \* both files written
              /\ savesImage(shouldSkipImages, imageBuffer)
              /\ outputDir' = writeFileSync(writeFileSync(outputDir, messageFile), imageFile)
              /\ log' = log \o <<wroteMessage, wroteImage, saved>>
              /\ AfterAssignment
    /\ UNCHANGED <<isDryRun, shouldSkipImages, env, configFile, emailService, config,
                   assignments, i, message, imageBuffer, callVars>>

\* The content id the attachment carries and the template's <img> names.
ChristmasImage == "christmas-image"

\* A payload counts as an image as soon as it is given, an empty one too.
hasImageWhenGiven(payload) == payload.present

\* sendSecretSantaEmail: const hasImage = !!(imageBuffer && imageBuffer.length > 0),
\* for the optional parameter imageBuffer.
hasImage(payload) == payload.present /\ Len(payload.items) > 0

\* createEmailTemplate: the greeting, the message box and, with an image, the
\* image container whose <img> refers to the attachment by its content id.
createEmailTemplate(gifterName, gifteeName, text, withImage) ==
    [greeting |-> gifterName, message |-> text,
     images |-> IF withImage THEN <<ChristmasImage>> ELSE <<>>]

\* sendSecretSantaEmail: attachments of emailData, undefined without an image.
attachmentsOf(payload) ==
    IF hasImage(payload)
    THEN <<[filename |-> "christmas.png", content |-> payload.items, cid |-> ChristmasImage]>>
    ELSE <<>>

\* The notification addressed to the participant drawn.
emailDataToGiftee(gifter, giftee, text, payload) ==
    [to |-> giftee.email, text |-> text,
     html |-> createEmailTemplate(gifter.name, giftee.name, text, hasImage(payload)),
     attachments |-> attachmentsOf(payload)]

\* EmailService.sendSecretSantaEmail: const emailData, with the message in
\* its text and the picture attached when there is one.
emailData(gifter, giftee, text, payload) ==
    [to |-> gifter.email, text |-> text,
     html |-> createEmailTemplate(gifter.name, giftee.name, text, hasImage(payload)),
     attachments |-> attachmentsOf(payload)]

\* EmailService.sendEmail: const msg, what sgMail.send is given.
sendGridMessage(mail) ==
    [to |-> mail.to, text |-> mail.text, html |-> mail.html,
     attachments |-> [k \in 1..Len(mail.attachments) |->
                        [content |-> mail.attachments[k].content,
                         filename |-> mail.attachments[k].filename,
                         disposition |-> "inline",
                         content_id |-> mail.attachments[k].cid]]]

\* sendOrPreview in a live run: sendEmail -> emailService.sendSecretSantaEmail
SendEmail ==
    /\ pc = "sendOrPreview"
    /\ ~isDryRun
    /\ LET gifter == Current.gifter
           giftee == Current.giftee
           mail == emailData(gifter, giftee, message, Some(imageBuffer))
       IN  \/ /\ log' = Append(log, Ev("sendSecretSantaEmail", i, FALSE,
                                      <<mail.to, giftee.name>>, mail.text, imageBuffer))
              /\ Throw(Error("Failed to send email to", <<>>, {mail.to}))
           \/ /\ log' = Append(log, Ev("sendSecretSantaEmail", i, TRUE,
                                      <<mail.to, giftee.name>>, mail.text, imageBuffer))
              /\ AfterAssignment
    /\ UNCHANGED <<isDryRun, shouldSkipImages, env, configFile, outputDir, emailService,
                   config, assignments, i, message, imageBuffer, callVars>>

\* processAllAssignments: await this.delayBetweenRequests(), then i++
DelayBetweenRequests ==
    /\ pc = "delayBetweenRequests"
    /\ log' = Append(log, Ev("delay", i, TRUE, <<>>, "", EmptyBuffer))
    /\ i' = i + 1
    /\ pc' = "generateMessage"
    /\ UNCHANGED <<isDryRun, shouldSkipImages, env, configFile, outputDir, emailService,
                   config, assignments, message, imageBuffer, error, exitCode, callVars>>

----------------------------------------------------------------------------
(* Specifications *)

\* One run of main: flags, environment, configuration file and output
\* directory are whatever the process finds.
Init ==
    /\ isDryRun \in BOOLEAN
    /\ shouldSkipImages \in BOOLEAN
    /\ env \in SUBSET EnvVars
    /\ configFile \in ConfigFiles
    /\ outputDir \in {{}, {StaleFile}}
    /\ emailService = "null"
    /\ pc = "main"
    /\ config = <<>>
    /\ assignments = <<>>
    /\ i = 0
    /\ message = ""
    /\ imageBuffer = EmptyBuffer
    /\ log = <<>>
    /\ error = NoError
    /\ exitCode = -1
    /\ callInput = Missing
    /\ callResult = NoResult
    /\ callState = "idle"
    /\ loads = <<>>
    /\ encryption = <<>>
    /\ returned = {}
    /\ mapping = NoMapping
    /\ outbox = <<>>

Next ==
    \/ Construct
    \/ PrepareOutputDirectory
    \/ LoadConfiguration
    \/ VerifySmtpIfNeeded
    \/ PerformAssignment
    \/ GenerateMessage
    \/ GenerateImage
    \/ SaveToFiles
    \/ SendEmail
    \/ DelayBetweenRequests

Spec == Init /\ [][Next]_vars

\* A run whose pending step is always taken in the end: synchronous code runs
\* on, and every awaited call or delay resolves or rejects.
SpecFair == Spec /\ WF_vars(Next)

\* Direct calls of assign on every bounded input.
InitAssign ==
    /\ isDryRun = FALSE
    /\ shouldSkipImages = FALSE
    /\ env = {}
    /\ configFile = ConfigFile("absent", Missing)
    /\ outputDir = {}
    /\ emailService = "null"
    /\ pc = "idle"
    /\ config = <<>>
    /\ assignments = <<>>
    /\ i = 0
    /\ message = ""
    /\ imageBuffer = EmptyBuffer
    /\ log = <<>>
    /\ error = NoError
    /\ exitCode = -1
    /\ callInput \in CallInputs
    /\ callResult = NoResult
    /\ callState = "ready"
    /\ loads = <<>>
    /\ encryption = <<>>
    /\ returned = {}
    /\ mapping = NoMapping
    /\ outbox = <<>>

NextAssign == CallAssign

SpecAssign == InitAssign /\ [][NextAssign]_vars

----------------------------------------------------------------------------
(* Direct calls of loadConfig *)

\* Participants a file can hold beside An and Bo: one whose name has blanks
\* around it, and one for each way of failing validateParticipant.
Sp       == Participant(<<" ", "c", " ">>, <<"c", "@", "x">>, <<"g", "o">>)
NoName   == Participant(<<" ">>, <<"d", "@", "x">>, <<"t", "e", "a">>)
NoEmail  == Participant(<<"e", "d">>, <<>>, <<"t", "e", "a">>)
BadEmail == Participant(<<"f", "e">>, <<"f", "x">>, <<"t", "e", "a">>)
NoDesc   == Participant(<<"g", "i">>, <<"g", "@", "x">>, <<" ", " ">>)

LoadPool == {An, Bo, Sp, NoName, NoEmail, BadEmail, NoDesc}

LoadFiles ==
    {ConfigFile("absent", Missing), ConfigFile("malformed", Missing),
     ConfigFile("json", Missing)}
    \cup {ConfigFile("json", Some(items)) : items \in SeqsUpTo(LoadPool, MaxLoadLen)}

\* The file read, then removed.
SourceConsumed(file) == ConfigFile("absent", Missing)

\* The file once loadConfig has returned or thrown: existsSync and
\* readFileSync only read it.
SourceAfterLoad(file) == file

\* configLoader.loadConfig(), up to MaxLoads times on the same path
CallLoadConfig ==
    /\ pc = "idle"
    /\ Len(loads) < MaxLoads
    /\ loads' = Append(loads, loadConfig(configFile))
    /\ configFile' = SourceAfterLoad(configFile)
    /\ UNCHANGED <<isDryRun, shouldSkipImages, env, outputDir, emailService, pc, config,
                   assignments, i, message, imageBuffer, log, error, exitCode,
                   callInput, callResult, callState, encryptionVars, outbox>>

InitLoad ==
    /\ isDryRun = FALSE
    /\ shouldSkipImages = FALSE
    /\ env = {}
    /\ configFile \in LoadFiles
    /\ outputDir = {}
    /\ emailService = "null"
    /\ pc = "idle"
    /\ config = <<>>
    /\ assignments = <<>>
    /\ i = 0
    /\ message = ""
    /\ imageBuffer = EmptyBuffer
    /\ log = <<>>
    /\ error = NoError
    /\ exitCode = -1
    /\ callInput = Missing
    /\ callResult = NoResult
    /\ callState = "idle"
    /\ loads = <<>>
    /\ encryption = <<>>
    /\ returned = {}
    /\ mapping = NoMapping
    /\ outbox = <<>>

NextLoad == CallLoadConfig

SpecLoad == InitLoad /\ [][NextLoad]_vars

----------------------------------------------------------------------------
(* Calls on two instances of LogEncryption *)

Instances == {1, 2}

K1 == <<"k", "1">>
R1 == <<"r", "1">>
R2 == <<"r", "2">>

\* The secretKey given to the constructor: none, the empty string, or "k1";
\* and the keys crypto.randomBytes can give.
SecretKeys == {Missing, Some(<<>>), Some(K1)}
RandomKeys == {R1, R2}

\* The names and emails passed to the instances.
Names == {<<>>, <<"a", "n">>, <<"b", "o">>, ProtoName}
Emails == {<<>>, <<"a", "@", "x">>}

Call(inst, op, arg, result) == [inst |-> inst, op |-> op, arg |-> arg, result |-> result]

\* encryption.encryptName(name)
EncryptName ==
    /\ pc = "idle"
    /\ Cardinality(returned) < MaxCalls
    /\ \E inst \in DOMAIN encryption : \E name \in Names :
          LET call == encryptName(encryption[inst], name)
          IN  /\ encryption' = [encryption EXCEPT ![inst].cache = call.cache]
              /\ returned' = returned \cup {Call(inst, "encryptName", name, call.result)}
    /\ UNCHANGED <<pipelineVars, callInput, callResult, callState, loads, mapping, outbox>>

\* encryption.encryptEmail(email)
EncryptEmail ==
    /\ pc = "idle"
    /\ Cardinality(returned) < MaxCalls
    /\ \E inst \in DOMAIN encryption : \E email \in Emails :
          returned' = returned
              \cup {Call(inst, "encryptEmail", email, encryptEmail(encryption[inst], email))}
    /\ UNCHANGED <<pipelineVars, callInput, callResult, callState, loads, encryption, mapping,
                   outbox>>

\* encryption.getMapping()
GetMapping ==
    /\ pc = "idle"
    /\ \E inst \in DOMAIN encryption :
          mapping' = [inst |-> inst, entries |-> getMapping(encryption[inst])]
    /\ UNCHANGED <<pipelineVars, callInput, callResult, callState, loads, encryption, returned,
                   outbox>>

InitEncrypt ==
    /\ isDryRun = FALSE
    /\ shouldSkipImages = FALSE
    /\ env = {}
    /\ configFile = ConfigFile("absent", Missing)
    /\ outputDir = {}
    /\ emailService = "null"
    /\ pc = "idle"
    /\ config = <<>>
    /\ assignments = <<>>
    /\ i = 0
    /\ message = ""
    /\ imageBuffer = EmptyBuffer
    /\ log = <<>>
    /\ error = NoError
    /\ exitCode = -1
    /\ callInput = Missing
    /\ callResult = NoResult
    /\ callState = "idle"
    /\ loads = <<>>
    /\ encryption \in [Instances ->
                         {LogEncryption(secretKey, random) :
                             secretKey \in SecretKeys, random \in RandomKeys}]
    /\ returned = {}
    /\ mapping = NoMapping
    /\ outbox = <<>>

NextEncrypt == EncryptName \/ EncryptEmail \/ GetMapping

SpecEncrypt == InitEncrypt /\ [][NextEncrypt]_vars

----------------------------------------------------------------------------
(* Direct calls of EmailService.sendSecretSantaEmail *)

\* The image payloads a call can be given: none, an empty buffer, a picture.
Payloads == {Missing, Some(EmptyBuffer), Some(Png)}

\* The participants the calls are made with.
MailPool == {An, Bo, Cy}

\* emailService.sendSecretSantaEmail(gifter, giftee, message, imageBuffer?):
\* the message is built and handed to sgMail.send, which resolves or rejects.
SendSecretSantaEmail ==
    /\ pc = "idle"
    /\ Len(outbox) < MaxMails
    /\ \E gifter \in MailPool : \E giftee \in MailPool \ {gifter} :
       \E text \in Texts : \E payload \in Payloads : \E ok \in BOOLEAN :
          outbox' = Append(outbox,
                           [payload |-> payload,
                            msg |-> sendGridMessage(emailData(gifter, giftee, text, payload)),
                            ok |-> ok])
    /\ UNCHANGED <<pipelineVars, callInput, callResult, callState, loads, encryptionVars>>

InitMail ==
    /\ isDryRun = FALSE
    /\ shouldSkipImages = FALSE
    /\ env = {}
    /\ configFile = ConfigFile("absent", Missing)
    /\ outputDir = {}
    /\ emailService = "EmailService"
    /\ pc = "idle"
    /\ config = <<>>
    /\ assignments = <<>>
    /\ i = 0
    /\ message = ""
    /\ imageBuffer = EmptyBuffer
    /\ log = <<>>
    /\ error = NoError
    /\ exitCode = -1
    /\ callInput = Missing
    /\ callResult = NoResult
    /\ callState = "idle"
    /\ loads = <<>>
    /\ encryption = <<>>
    /\ returned = {}
    /\ mapping = NoMapping
    /\ outbox = <<>>

NextMail == SendSecretSantaEmail

SpecMail == InitMail /\ [][NextMail]_vars

----------------------------------------------------------------------------
(* Properties of assign *)

Returned == callState = "returned"

\* The participants of the call, as a set, and their number.
Items == {callInput.items[k] : k \in 1..Len(callInput.items)}
N == Len(callInput.items)

\* Size at least 3 and pairwise distinct names.
ValidInput ==
    /\ callInput.present
    /\ N >= 3
    /\ \A a, b \in 1..N : a # b => callInput.items[a].name # callInput.items[b].name

\* Two participants of the list share a name.
DuplicatedName ==
    /\ callInput.present
    /\ \E a, b \in 1..N : a # b /\ callInput.items[a].name = callInput.items[b].name

GiftersOf(p) == {k \in 1..Len(callResult.assignments) : callResult.assignments[k].gifter = p}
GifteesOf(p) == {k \in 1..Len(callResult.assignments) : callResult.assignments[k].giftee = p}

\* C1: for every list of n >= 3 participants with pairwise distinct names and
\* every outcome of the shuffle, assign returns exactly n assignments, every
\* participant is the gifter of exactly one and the giftee of exactly one, and
\* no assignment has its gifter as its giftee.
C1_AssignIsDerangement ==
    (Returned /\ ValidInput) =>
        /\ callResult.ok
        /\ Len(callResult.assignments) = N
        /\ \A p \in Items : Cardinality(GiftersOf(p)) = 1 /\ Cardinality(GifteesOf(p)) = 1
        /\ \A k \in 1..Len(callResult.assignments) :
               /\ callResult.assignments[k].gifter \in Items
               /\ callResult.assignments[k].giftee \in Items
               /\ callResult.assignments[k].gifter # callResult.assignments[k].giftee
               /\ callResult.assignments[k].gifter.name # callResult.assignments[k].giftee.name

\* assign returned the assignments of four participants, in an order that
\* differs from the order of the input.
C1_Witness ==
    /\ Returned /\ ValidInput /\ N = 4
    /\ callResult.ok
    /\ callResult.assignments[1].gifter # callInput.items[1]

\* C2: for every list of fewer than 3 participants, the empty list and a
\* missing list included, assign fails with 'At least 3 participants are
\* required for Secret Santa' and produces no assignment.
C2_TooFewFails ==
    (Returned /\ (~callInput.present \/ N < 3)) =>
        /\ ~callResult.ok
        /\ callResult.error = AtLeast3Error
        /\ callResult.assignments = <<>>

\* assign was called with two participants of different names and failed.
C2_Witness ==
    /\ Returned /\ callInput.present /\ N = 2 /\ ~DuplicatedName
    /\ ~callResult.ok

\* C3: for every list in which two participants share a name, whatever their
\* other fields are, assign fails with an invalid-input error (the duplicate
\* names error when the list has at least 3 participants) and produces no
\* assignment.
C3_DuplicateNameFails ==
    (Returned /\ DuplicatedName) =>
        /\ ~callResult.ok
        /\ callResult.error \in {AtLeast3Error, DuplicateError}
        /\ N >= 3 => callResult.error = DuplicateError
        /\ callResult.assignments = <<>>

\* assign was called with three participants, two of them with the same name
\* and different emails and descriptions, and failed on the duplicate.
C3_Witness ==
    /\ Returned /\ N = 3
    /\ \E a, b \in 1..N :
          /\ callInput.items[a].name = callInput.items[b].name
          /\ callInput.items[a].email # callInput.items[b].email
          /\ callInput.items[a].description # callInput.items[b].description
    /\ callResult.error = DuplicateError

----------------------------------------------------------------------------
(* Properties of the pipeline *)

LogIdx == 1..Len(log)

\* The steps of processAssignment that call a collaborator.
StepOps == {"generateMessage", "generateImage", "saveToFiles", "sendSecretSantaEmail"}
DeliveryOps == {"saveToFiles", "sendSecretSantaEmail"}

\* Positions of the log where a step of an assignment failed.
FailedSteps == {k \in LogIdx : log[k].op \in StepOps /\ ~log[k].ok}

\* Positions of the log where the delivery of an assignment completed.
Deliveries == {k \in LogIdx : log[k].op \in DeliveryOps /\ log[k].ok}
DeliveriesOf(idx) == {k \in Deliveries : log[k].idx = idx}

\* C4: if a step (message generation, image generation, delivery or artifact
\* write) fails while an assignment is processed, no message-generation,
\* image-generation, delivery or delay step happens after it, the run ends
\* failed, and the error reaches main, which exits with status 1.
C4_FailureAbortsRun ==
    \A k \in FailedSteps :
        /\ k = Len(log)
        /\ pc = "exited"
        /\ exitCode = 1
        /\ error.kind # "none"

\* The notification of the second assignment failed in a live run.
C4_Witness ==
    \E k \in FailedSteps : log[k].op = "sendSecretSantaEmail" /\ log[k].idx = 1

\* C5: if the first failing step of a run occurs while the k-th assignment is
\* processed, exactly the first k-1 assignments of the list have completed
\* delivery (or artifact write), once each and in list order, and the k-th
\* and all later ones have no completed delivery.
C5_OnlyEarlierDelivered ==
    \A f \in FailedSteps :
        /\ {log[k].idx : k \in Deliveries} = 0..(log[f].idx - 1)
        /\ Cardinality(Deliveries) = log[f].idx
        /\ \A k \in Deliveries :
               /\ k < f
               /\ log[k].args[1] = assignments[log[k].idx + 1].gifter.email
               /\ \A j \in Deliveries : j < k => log[j].idx < log[k].idx

\* The message generation of the third assignment failed after two
\* assignments were delivered.
C5_Witness ==
    \E f \in FailedSteps :
        /\ log[f].op = "generateMessage"
        /\ log[f].idx = 2
        /\ Cardinality(Deliveries) = 2

\* Positions of the log that belong to an assignment.
AssignmentEvents == {k \in LogIdx : log[k].idx >= 0}

\* C6: assignments are processed one at a time in list order: the events of
\* the log never go back to an earlier assignment, every event of assignment
\* j+1 comes after the completed delivery of assignment j, every call is made
\* for the assignment at its position of the list, and nothing has been done
\* for an assignment after the one in progress.
C6_SequentialInListOrder ==
    /\ \A a, b \in AssignmentEvents : a < b => log[a].idx <= log[b].idx
    /\ \A b \in AssignmentEvents :
           log[b].idx > 0 =>
               \E a \in DeliveriesOf(log[b].idx - 1) : a < b
    /\ \A k \in AssignmentEvents :
           /\ log[k].idx <= i
           /\ log[k].idx < Len(assignments)
           /\ log[k].op = "generateMessage" =>
                  log[k].args = <<assignments[log[k].idx + 1].gifter.name,
                                  assignments[log[k].idx + 1].giftee.name,
                                  assignments[log[k].idx + 1].giftee.description>>
           /\ log[k].op = "generateImage" =>
                  log[k].args = <<assignments[log[k].idx + 1].giftee.description>>
           /\ log[k].op \in DeliveryOps =>
                  log[k].args[1] = assignments[log[k].idx + 1].gifter.email

\* The message of the third assignment has been generated, after the first
\* two assignments were delivered.
C6_Witness ==
    /\ pc = "generateImage"
    /\ i = 2
    /\ Cardinality(Deliveries) = 2

FailedVerifications == {k \in LogIdx : log[k].op = "verifyConnection" /\ ~log[k].ok}

\* C7: in a live run, if verifyConnection fails, the run aborts with no
\* assignment processed: no message-generation, image-generation or delivery
\* call is ever made, and main exits with status 1.
C7_VerifyFailureAborts ==
    \A v \in FailedVerifications :
        /\ ~isDryRun
        /\ v = Len(log)
        /\ \A k \in LogIdx : log[k].op \notin StepOps \cup {"writeFile", "delay"}
        /\ assignments = <<>>
        /\ pc = "exited"
        /\ exitCode = 1

\* verifyConnection failed in a live run whose configuration holds three
\* participants that assign would accept.
C7_Witness ==
    /\ FailedVerifications # {}
    /\ validateInput(Some(config)) = "ok"

\* C8: when skip-images is set, the image-generation collaborator is never
\* called in the whole run and the image handed to the delivery step is empty
\* for every assignment.
C8_SkipImagesNoImage ==
    shouldSkipImages =>
        /\ \A k \in LogIdx : log[k].op # "generateImage"
        /\ \A k \in LogIdx : log[k].op \in DeliveryOps => log[k].bytes = EmptyBuffer
        /\ pc = "sendOrPreview" => imageBuffer = EmptyBuffer
        /\ \A f \in outputDir : f.run = "this" => f.bytes = EmptyBuffer

\* A live run with skip-images delivered its three notifications.
C8_Witness ==
    /\ shouldSkipImages /\ ~isDryRun
    /\ exitCode = 0
    /\ Cardinality(Deliveries) = 3

TextFiles == {f \in outputDir : f.suffix = "_message.txt"}
ImageFiles == {f \in outputDir : f.suffix = "_image.png"}

\* The text returned by the message generation of the assignment at idx.
GeneratedText(idx) ==
    LET k == CHOOSE k \in LogIdx : log[k].op = "generateMessage" /\ log[k].idx = idx /\ log[k].ok
    IN  log[k].text

FilesFor(idx) ==
    {f \in TextFiles :
        /\ f.from = assignments[idx + 1].gifter.name
        /\ f.drawn = assignments[idx + 1].giftee.name
        /\ f.text = GeneratedText(idx)}

\* C9: a successful dry run with skip-images over n >= 3 participants with
\* unique names leaves exactly n text artifacts in the output area, one per
\* gifter, and no image artifact; each text artifact names the gifter's
\* giftee and contains the message generated for that assignment.
C9_DryRunArtifacts ==
    (isDryRun /\ shouldSkipImages /\ pc = "exited" /\ exitCode = 0) =>
        /\ Cardinality(TextFiles) = Len(config)
        /\ ImageFiles = {}
        /\ \A idx \in 0..(Len(assignments) - 1) : Cardinality(FilesFor(idx)) = 1

\* C10: in a dry run the delivery channel is never contacted: neither
\* verifyConnection nor the send-notification operation is invoked, whether
\* the run succeeds or fails.
C10_DryRunNoDeliveryChannel ==
    isDryRun =>
        /\ emailService = "null"
        /\ \A k \in LogIdx : log[k].op \notin {"verifyConnection", "sendSecretSantaEmail"}

\* A dry run wrote the artifacts of all three assignments and ended well.
C10_Witness ==
    /\ isDryRun
    /\ exitCode = 0
    /\ Cardinality(Deliveries) = 3

\* The events of the dry-run variant (the output directory cleared or written)
\* and of the live variant (a notification handed to the e-mail service).
ArtifactOps == {"prepareOutputDirectory", "writeFile", "saveToFiles"}
NotificationOps == {"sendSecretSantaEmail"}
ArtifactEvents == {k \in LogIdx : log[k].op \in ArtifactOps}
NotificationEvents == {k \in LogIdx : log[k].op \in NotificationOps}

\* C11: one delivery variant per run, chosen once: the mode never changes, no
\* run holds both an artifact write and a notification, a dry run sends no
\* notification, and a live run neither clears nor writes the output directory.
C11_OneDeliveryVariant ==
    [][/\ isDryRun' = isDryRun
       /\ (ArtifactEvents = {} \/ NotificationEvents = {})'
       /\ (isDryRun => NotificationEvents = {})'
       /\ ~isDryRun => (ArtifactEvents = {})' /\ outputDir' = outputDir]_vars

\* A live run with a stale file in the output directory has sent the second
\* notification, and the stale file is still there.
C11_Witness ==
    /\ ~isDryRun
    /\ outputDir = {StaleFile}
    /\ \E k \in NotificationEvents : log[k].ok /\ log[k].idx = 1

\* The settings a run of the given mode needs: the provider credential always,
\* the two delivery-channel settings in a live run.
RequiredSettings ==
    {"OPENAI_API_KEY"} \cup (IF isDryRun THEN {} ELSE {"SENDGRID_API_KEY", "SENDGRID_FROM"})
AbsentSettings == RequiredSettings \ env
GateFailed == error.kind = "Missing required environment variables"
Named(err) == {err.missing[k] : k \in 1..Len(err.missing)}

\* C12: once the constructor has run, the environment gate has failed exactly
\* when a required setting is absent, and its error names all the required
\* settings that are absent, each once, and no other.
C12_GateNamesAllAbsent ==
    pc # "main" =>
        /\ GateFailed <=> AbsentSettings # {}
        /\ GateFailed =>
              /\ Named(error) = AbsentSettings
              /\ Len(error.missing) = Cardinality(AbsentSettings)
              /\ pc = "exited" /\ exitCode = 1 /\ log = <<>>
        /\ ~GateFailed => error.missing = <<>>

\* A live run whose environment lacks both delivery-channel settings was
\* stopped by the gate.
C12_Witness ==
    /\ ~isDryRun
    /\ env = {"OPENAI_API_KEY"}
    /\ GateFailed
    /\ Len(error.missing) = 2

\* The three failures that precede the assignment work, read off the inputs
\* of the run.
GateFails == AbsentSettings # {}
LoadFails == ~loadConfig(configFile).ok
AssignFails ==
    /\ loadConfig(configFile).ok
    /\ validateInput(Some(loadConfig(configFile).participants)) # "ok"
EarlyErrors ==
    {"Missing required environment variables", "Failed to load configuration",
     "Invalid JSON in configuration file", AtLeast3Error, DuplicateError}

\* C13: a run whose environment gate, configuration load or assign validation
\* fails never calls message generation, image generation or delivery, holds no
\* assignment, and ends in failure (with one of these errors, or with the
\* failed verification of the delivery channel that precedes assign); and a run
\* that ended with one of these errors made none of those calls.
C13_EarlyFailureNoWork ==
    /\ (GateFails \/ LoadFails \/ AssignFails) =>
          /\ \A k \in LogIdx : log[k].op \notin StepOps \cup {"writeFile", "delay"}
          /\ assignments = <<>>
          /\ pc \notin {"generateMessage", "generateImage", "sendOrPreview",
                        "delayBetweenRequests"}
          /\ pc = "exited" =>
                /\ exitCode = 1
                /\ error.kind \in EarlyErrors \cup {"SendGrid connection failed"}
    /\ error.kind \in EarlyErrors =>
          /\ GateFails \/ LoadFails \/ AssignFails
          /\ AssignmentEvents = {}

\* A live run over a configuration with a duplicated name was stopped by
\* assign after the delivery channel had been verified.
C13_Witness ==
    /\ error.kind = DuplicateError
    /\ ~isDryRun
    /\ Len(config) = 3
    /\ \E k \in LogIdx : log[k].op = "verifyConnection"

\* C14: whenever a message-generation, image-generation or delivery call has
\* failed for an assignment, the error that leaves run carries the contact
\* address of the gifter of that assignment.
C14_ErrorCarriesGifterContact ==
    \A k \in FailedSteps :
        assignments[log[k].idx + 1].gifter.email \in error.mentions

\* Positions of the log where the delay between two requests was taken.
DelayEvents == {k \in LogIdx : log[k].op = "delay"}

\* C15: a delay is taken after each successfully processed assignment but the
\* last: every delay directly follows the completed delivery of an assignment
\* that is not the last, the next event is the first step of the following
\* assignment, every assignment after the first starts right after the delay
\* of its predecessor, nothing is delayed after a failure, and a successful run
\* has taken exactly n-1 delays and ends with a delivery.
C15_DelayBetweenAssignments ==
    /\ \A k \in DelayEvents :
          /\ k - 1 \in Deliveries
          /\ log[k - 1].idx = log[k].idx
          /\ log[k].idx < Len(assignments) - 1
          /\ k < Len(log) =>
                /\ log[k + 1].op = "generateMessage"
                /\ log[k + 1].idx = log[k].idx + 1
    /\ \A k \in LogIdx :
          log[k].op = "generateMessage" /\ log[k].idx > 0 =>
              /\ k - 1 \in DelayEvents
              /\ log[k - 1].idx = log[k].idx - 1
    /\ \A k \in FailedSteps : \A d \in DelayEvents : d < k
    /\ \A j \in DelayEvents : \A k \in DelayEvents : log[j].idx = log[k].idx => j = k
    /\ exitCode = 0 =>
          /\ Cardinality(DelayEvents) = Len(assignments) - 1
          /\ Len(log) \in Deliveries
    /\ pc = "delayBetweenRequests" => Len(log) \in Deliveries

\* A successful run over three participants: two delays, none after the last
\* delivery.
C15_Witness ==
    /\ exitCode = 0
    /\ Len(assignments) = 3
    /\ Cardinality(DelayEvents) = 2
    /\ log[Len(log)].idx = 2

----------------------------------------------------------------------------
(* Further properties of assign and shuffle *)

\* The giftee the returned assignments give to participant p, and the
\* participant reached from p by following k giftee links.
GifteeOf(p) == callResult.assignments[CHOOSE k \in GiftersOf(p) : TRUE].giftee
RECURSIVE Follow(_, _)
Follow(p, k) == IF k = 0 THEN p ELSE Follow(GifteeOf(p), k - 1)

\* C16: for every valid input of size n the returned mapping is one cycle of
\* length n: from any participant the giftee links visit all n participants,
\* come back to the start after n links and not before; and the giftee of the
\* i-th returned assignment is the gifter of the ((i+1) mod n)-th.
C16_SingleCycle ==
    (Returned /\ ValidInput) =>
        /\ callResult.ok
        /\ Len(callResult.assignments) = N
        /\ \A p \in Items :
              /\ {Follow(p, k) : k \in 0..(N - 1)} = Items
              /\ Follow(p, N) = p
              /\ \A k \in 1..(N - 1) : Follow(p, k) # p
        /\ \A k \in 0..(N - 1) :
              callResult.assignments[k + 1].giftee =
                  callResult.assignments[((k + 1) % N) + 1].gifter

\* assign returned one cycle through four participants whose last giftee is
\* the first gifter.
C16_Witness ==
    /\ Returned /\ ValidInput /\ N = 4
    /\ callResult.ok
    /\ callResult.assignments[4].giftee = callResult.assignments[1].gifter
    /\ Follow(callInput.items[1], 2) # callInput.items[1]

\* The second call of assign on the same array has returned or thrown.
ReturnedAgain == callState = "returned again"

RECURSIVE Factorial(_)
Factorial(n) == IF n <= 1 THEN 1 ELSE n * Factorial(n - 1)

\* The positions 1..N of the list of the call in their order, and what the
\* shuffle makes of them under each sequence of random choices.
Positions == [k \in 1..N |-> k]
Orderings == {shuffle(Positions, rnd) : rnd \in RandomChoices(N)}

\* C18: the shuffle is unbiased.  For every list of the call, over all choice
\* sequences (j in 0..i for i = n-1 down to 1) each result is a permutation of
\* the positions, no two choice sequences give the same ordering, and the
\* orderings number n!, so each of the n! orderings comes from exactly one
\* choice sequence; and the list assign pairs up is one of these orderings of
\* its input.
C18_ShuffleUnbiased ==
    /\ callState = "ready" =>
          /\ \A o \in Orderings : Len(o) = N /\ {o[k] : k \in 1..N} = 1..N
          /\ Cardinality(Orderings) = Cardinality(RandomChoices(N))
          /\ Cardinality(Orderings) = Factorial(N)
    /\ (Returned /\ callResult.ok) =>
          \E o \in Orderings :
              \A k \in 1..N : callResult.assignments[k].gifter = callInput.items[o[k]]

\* assign paired up the four participants of its input in the reverse order,
\* one of the 24 orderings of four positions.
C18_Witness ==
    /\ Returned /\ callResult.ok /\ N = 4
    /\ \A k \in 1..4 : callResult.assignments[k].gifter = callInput.items[5 - k]
    /\ Cardinality(Orderings) = 24

----------------------------------------------------------------------------
(* Properties of loadConfig *)

NonBlank(str) == \E k \in 1..Len(str) : str[k] # " "

\* The file exists, parses, holds a non-empty participants array, and every
\* participant has a non-blank name, a valid email and a non-blank description.
Loadable(file) ==
    /\ file.state = "json"
    /\ file.participants.present
    /\ Len(file.participants.items) > 0
    /\ \A k \in 1..Len(file.participants.items) :
          /\ NonBlank(file.participants.items[k].name)
          /\ validateEmail(file.participants.items[k].email)
          /\ NonBlank(file.participants.items[k].description)

\* C20: loadConfig returns a participant list, the list of the file, exactly
\* when the file exists, parses, holds a non-empty participants array and every
\* participant has a non-blank name, a syntactically valid email and a
\* non-blank description; otherwise it throws and returns no configuration.
C20_LoadsExactlyValidFiles ==
    \A k \in 1..Len(loads) :
        /\ loads[k].ok <=> Loadable(configFile)
        /\ loads[k].ok =>
              /\ loads[k].participants = configFile.participants.items
              /\ loads[k].error = "none"
        /\ ~loads[k].ok =>
              /\ loads[k].participants = <<>>
              /\ loads[k].error \in {"Failed to load configuration",
                                     "Invalid JSON in configuration file"}

\* A file whose second participant has a blank description was refused, with
\* the error of that participant.
C20_Witness ==
    /\ Len(loads) >= 1
    /\ configFile = ConfigFile("json", Some(<<An, NoDesc>>))
    /\ ~loads[1].ok
    /\ loads[1].cause = "Participant description cannot be empty"

\* The steps of the assignment at idx that follow message generation.
LaterSteps(idx) ==
    {k \in LogIdx : log[k].idx = idx
                     /\ log[k].op \in {"generateImage", "writeFile", "saveToFiles",
                                       "sendSecretSantaEmail", "delay"}}

----------------------------------------------------------------------------
(* Properties of LogEncryption *)

\* The encryptName calls made with a non-empty name.
NameCalls == {c \in returned : c.op = "encryptName" /\ c.arg # <<>>}

\* Both instances were built with a key, and with the same one.
GivenSameKey(a, b) ==
    /\ encryption[a].secretKey.present
    /\ encryption[b].secretKey.present
    /\ encryption[a].secretKey.items = encryption[b].secretKey.items

\* C22 as stated: all the encryptName calls of one instance with the same
\* non-empty name returned the same masked value, whatever calls came between,
\* and so did the calls of two instances built with the same key.
C22_EncryptNameConsistent ==
    \A c, d \in NameCalls :
        c.arg = d.arg /\ (c.inst = d.inst \/ GivenSameKey(c.inst, d.inst)) =>
            c.result = d.result

\* C22 amended: the same, for two instances built with the same non-empty key.
C22_ConsistentForNonEmptyKey ==
    \A c, d \in NameCalls :
        /\ c.arg = d.arg
        /\ \/ c.inst = d.inst
           \/ GivenSameKey(c.inst, d.inst) /\ Len(encryption[c.inst].secretKey.items) > 0
        => c.result = d.result

\* Two instances built with the key "k1" masked the same name, with the
\* masking of an email in between, and returned one value.
C22_Witness ==
    /\ GivenSameKey(1, 2)
    /\ encryption[1].secretKey = Some(K1)
    /\ \E c, d \in NameCalls :
          c.inst = 1 /\ d.inst = 2 /\ c.arg = d.arg /\ c.result = d.result
    /\ \E c \in returned : c.op = "encryptEmail" /\ c.arg # <<>>

\* The (name, masked value) pairs of the encryptName calls made on an
\* instance with a non-empty name.
MaskedNames(inst) == {<<c.arg, c.result>> : c \in {d \in NameCalls : d.inst = inst}}

\* C23: after any sequence of encryptName and encryptEmail calls on an
\* instance, getMapping has exactly one entry per distinct non-empty name
\* passed to encryptName so far, mapped to the value encryptName returned for
\* it: none before a name is encrypted, and none added or removed by
\* encryptEmail or getMapping; and the mapping a getMapping call returned held
\* only such entries.
C23_MappingHasEveryName ==
    /\ \A inst \in DOMAIN encryption :
          /\ getMapping(encryption[inst]) = MaskedNames(inst)
          /\ \A e, f \in getMapping(encryption[inst]) : e[1] = f[1] => e = f
    /\ mapping.inst # 0 => mapping.entries \subseteq MaskedNames(mapping.inst)

\* C24: encryptName and encryptEmail called with the empty string return
\* '[EMPTY]' and leave the name cache as it was: the call changes no instance,
\* and no cache ever holds an entry for the empty name.
C24_EmptyInputMasked ==
    [][/\ \A c \in returned' :
             c.arg = <<>> =>
                 /\ c.result = EmptyMask
                 /\ c \notin returned => encryption' = encryption
       /\ \A inst \in DOMAIN encryption' : <<>> \notin DOMAIN encryption'[inst].cache]_vars

\* One instance was asked for the empty name and the empty email after it
\* had masked a name; its cache holds that name alone.
C24_Witness ==
    \E inst \in DOMAIN encryption :
        /\ Call(inst, "encryptName", <<>>, EmptyMask) \in returned
        /\ Call(inst, "encryptEmail", <<>>, EmptyMask) \in returned
        /\ DOMAIN encryption[inst].cache = {<<"a", "n">>}

----------------------------------------------------------------------------
(* Further properties of the pipeline *)

\* Positions of the log where the message, and the image, of the assignment
\* at idx were generated with success.
MessagesOf(idx) == {k \in LogIdx : log[k].op = "generateMessage" /\ log[k].idx = idx /\ log[k].ok}
ImagesOf(idx) == {k \in LogIdx : log[k].op = "generateImage" /\ log[k].idx = idx /\ log[k].ok}

\* C25: within an assignment the steps run in the order message, image (only
\* when skip-images is not set), delivery.  An image is requested only right
\* after the message of the same assignment was generated; a delivery or a file
\* write is attempted only after the message and, unless images are skipped,
\* the image of the same assignment were generated, after no failed step of
\* it, and it carries that message and that image (the empty image on skip).
C25_StepOrder ==
    /\ \A k \in LogIdx :
          log[k].op = "generateImage" =>
              /\ ~shouldSkipImages
              /\ k - 1 \in MessagesOf(log[k].idx)
    /\ \A k \in LogIdx :
          log[k].op \in DeliveryOps \cup {"writeFile"} =>
              /\ \E m \in MessagesOf(log[k].idx) :
                    /\ m < k
                    /\ log[k].op \in DeliveryOps => log[k].text = log[m].text
                    /\ ~shouldSkipImages =>
                          \E g \in ImagesOf(log[k].idx) :
                              /\ m < g /\ g < k
                              /\ log[k].op \in DeliveryOps => log[k].bytes = log[g].bytes
                    /\ shouldSkipImages => log[k].bytes = EmptyBuffer
              /\ ~\E f \in FailedSteps :
                     /\ log[f].idx = log[k].idx
                     /\ log[f].op \in {"generateMessage", "generateImage"}
    /\ pc = "generateImage" => MessagesOf(i) = {Len(log)}
    /\ pc = "sendOrPreview" =>
          /\ MessagesOf(i) # {}
          /\ ~shouldSkipImages => ImagesOf(i) = {Len(log)}

\* The second notification of a live run with images was sent with the
\* picture generated for that assignment.
C25_Witness ==
    /\ ~isDryRun /\ ~shouldSkipImages
    /\ \E k \in DeliveriesOf(1) : log[k].bytes = Png /\ log[k - 1].op = "generateImage"

\* Positions of the log where op was invoked for the assignment at idx.
CallsOf(op, idx) == {k \in LogIdx : log[k].op = op /\ log[k].idx = idx}

\* C26: there is no retry.  In every run, whether it succeeds or fails, each
\* of message generation, image generation and delivery (file output or
\* notification) is invoked at most once per assignment, and verifyConnection
\* at most once in the run.
C26_NoRetry ==
    /\ \A op \in StepOps : \A idx \in 0..i : Cardinality(CallsOf(op, idx)) <= 1
    /\ \A idx \in 0..i :
          Cardinality(CallsOf("saveToFiles", idx) \cup CallsOf("sendSecretSantaEmail", idx)) <= 1
    /\ Cardinality(CallsOf("verifyConnection", -1)) <= 1
    /\ \A k \in LogIdx : log[k].idx \in -1..i

\* A live run stopped by the failure of its second notification: every call
\* before it, and the failed one, was made once.
C26_Witness ==
    /\ ~isDryRun
    /\ pc = "exited" /\ exitCode = 1
    /\ Cardinality(CallsOf("verifyConnection", -1)) = 1
    /\ Cardinality(CallsOf("generateMessage", 1)) = 1
    /\ \E k \in CallsOf("sendSecretSantaEmail", 1) : ~log[k].ok

\* Positions of the log where a notification was handed to the e-mail service.
Sends == {k \in LogIdx : log[k].op = "sendSecretSantaEmail"}

----------------------------------------------------------------------------
(* The mappings assign can return *)

\* The gifter-to-giftee mapping assign returns for the list of the call under
\* the choice sequence rnd, as a function on the participants; and every
\* choice sequence paired with the mapping it gives.
MappingOf(rnd) ==
    LET result == assign(callInput, rnd)
    IN  [p \in Items |->
            result.assignments[CHOOSE k \in 1..N : result.assignments[k].gifter = p].giftee]
Outcomes == {<<rnd, MappingOf(rnd)>> : rnd \in RandomChoices(N)}
Mappings == {outcome[2] : outcome \in Outcomes}

\* The single n-cycles on the participants of the call: the functions under
\* which the first participant comes back to itself after n steps, having
\* visited all the others.
RECURSIVE Iterate(_, _, _)
Iterate(f, p, k) == IF k = 0 THEN p ELSE Iterate(f, f[p], k - 1)
SingleCycles ==
    {f \in [Items -> Items] :
        /\ {Iterate(f, callInput.items[1], k) : k \in 0..(N - 1)} = Items
        /\ Iterate(f, callInput.items[1], N) = callInput.items[1]}

\* C28: for a valid list of n participants the mappings assign can return,
\* over all outcomes of the shuffle, are exactly the single n-cycles on the
\* participants; there are (n-1)! of them, each returned for exactly n
\* outcomes of the shuffle, no mapping made of shorter cycles is among them,
\* and they are at least two, so that two calls on the same list can differ.
C28_ExactlyTheSingleCycles ==
    (callState = "ready" /\ ValidInput) =>
        LET outcomes == Outcomes
            mappings == {outcome[2] : outcome \in outcomes}
        IN  /\ mappings = SingleCycles
            /\ Cardinality(mappings) = Factorial(N - 1)
            /\ \A m \in mappings :
                  Cardinality({outcome \in outcomes : outcome[2] = m}) = N
            /\ Cardinality(mappings) >= 2

\* The second call on the list An, Bo, Cy returned the cycle An -> Cy -> Bo,
\* one of the two mappings this list can get.
C28_Witness ==
    /\ ReturnedAgain
    /\ callInput = Some(<<An, Bo, Cy>>)
    /\ callResult.ok
    /\ GifteeOf(An) = Cy
    /\ Cardinality(Mappings) = 2

----------------------------------------------------------------------------
(* Properties of saveToFiles *)

\* Positions of the log where a file of the assignment at idx was written.
WritesOf(idx, suffix) ==
    {k \in LogIdx : log[k].op = "writeFile" /\ log[k].idx = idx /\ log[k].args[2] = suffix}

\* Positions of the log where saveToFiles returned.
Saved == {k \in LogIdx : log[k].op = "saveToFiles" /\ log[k].ok}

\* The file saveToFiles writes for the assignment at idx.
WrittenFile(idx, suffix, text, bytes) ==
    File(sanitizedName(assignments[idx + 1].gifter.name), suffix, "this",
         assignments[idx + 1].gifter, assignments[idx + 1].giftee, text, bytes)

\* C29: in a dry run every assignment saveToFiles has processed had its text
\* file written once, with the message generated for it, and had its image
\* file written exactly when skip-images is not set and the image generated for
\* it is not empty, once and with those bytes; no empty image file is ever
\* written, and none when images are skipped.  Right after saveToFiles returns
\* the output directory holds the text file, and the image file exactly in
\* that case.
C29_ArtifactsWritten ==
    /\ \A k \in Saved :
          LET idx == log[k].idx
              text == log[k].text
              bytes == log[k].bytes
              imageSaved == ~shouldSkipImages /\ Len(bytes) > 0
          IN  /\ isDryRun
              /\ text = GeneratedText(idx)
              /\ Cardinality(WritesOf(idx, "_message.txt")) = 1
              /\ \A w \in WritesOf(idx, "_message.txt") : w < k /\ log[w].text = text
              /\ (WritesOf(idx, "_image.png") # {}) <=> imageSaved
              /\ Cardinality(WritesOf(idx, "_image.png")) <= 1
              /\ \A w \in WritesOf(idx, "_image.png") : w < k /\ log[w].bytes = bytes
              /\ ~shouldSkipImages => \E g \in ImagesOf(idx) : log[g].bytes = bytes
              /\ k = Len(log) =>
                    /\ WrittenFile(idx, "_message.txt", text, EmptyBuffer) \in outputDir
                    /\ (WrittenFile(idx, "_image.png", "", bytes) \in outputDir) <=> imageSaved
    /\ \A k \in LogIdx :
          (log[k].op = "writeFile" /\ log[k].args[2] = "_image.png") =>
              ~shouldSkipImages /\ Len(log[k].bytes) > 0

\* A dry run with images processed one assignment whose image was empty and
\* one whose image was not: the first left a text file only, the second both.
C29_Witness ==
    /\ isDryRun /\ ~shouldSkipImages
    /\ \E k \in Saved : Len(log[k].bytes) = 0 /\ WritesOf(log[k].idx, "_image.png") = {}
    /\ \E k \in Saved : /\ k = Len(log)
                        /\ Len(log[k].bytes) > 0
                        /\ WritesOf(log[k].idx, "_image.png") # {}
                        /\ WrittenFile(log[k].idx, "_image.png", "", log[k].bytes) \in outputDir

----------------------------------------------------------------------------
(* Termination *)

\* Every assignment of the list has been delivered, or written, once.
AllDeliveredOnce ==
    /\ Len(assignments) > 0
    /\ Len(assignments) = Len(config)
    /\ \A idx \in 0..(Len(assignments) - 1) : Cardinality(DeliveriesOf(idx)) = 1

\* The run has ended and holds the outcome of its deliveries.
Terminated ==
    /\ pc = "exited"
    /\ exitCode \in {0, 1}
    /\ exitCode = 0 <=> AllDeliveredOnce
    /\ exitCode = 0 <=> error = NoError

\* C30: when every pending call and delay returns or fails in the end, every
\* run ends; it ends with status 0 exactly when every assignment of the list
\* was delivered (or written) once, and with an error and status 1 otherwise;
\* no assignment is ever delivered twice, and an error is held only by a run
\* that has ended.
C30_RunTerminates ==
    /\ <>(pc = "exited")
    /\ [](pc = "exited" => Terminated)
    /\ [](error # NoError => pc = "exited")
    /\ [](\A k \in Deliveries : Cardinality(DeliveriesOf(log[k].idx)) = 1)

\* A dry run over three participants ended with status 0 after the third
\* assignment was written.
C30_Witness ==
    /\ pc = "exited" /\ exitCode = 0 /\ isDryRun
    /\ Len(assignments) = 3
    /\ Cardinality(Deliveries) = 3
    /\ log[Len(log)].op = "saveToFiles" /\ log[Len(log)].idx = 2

\* A live run ended with status 1 after two of three notifications.
C30_FailedWitness ==
    /\ pc = "exited" /\ exitCode = 1 /\ ~isDryRun
    /\ Len(assignments) = 3
    /\ Cardinality(Deliveries) = 2

----------------------------------------------------------------------------
(* The output directory of a dry run *)

\* Positions of the log where prepareOutputDirectory cleared the directory.
Clearings == {k \in LogIdx : log[k].op = "prepareOutputDirectory"}

\* The file was written by a writeFileSync of this run.
WrittenByThisRun(f) ==
    /\ f.run = "this"
    /\ \E k \in LogIdx :
          /\ log[k].op = "writeFile"
          /\ log[k].args = <<f.base, f.suffix>>
          /\ log[k].text = f.text
          /\ log[k].bytes = f.bytes

\* The directory holds only what this run wrote.
OwnFilesOnly == \A f \in outputDir : WrittenByThisRun(f)

----------------------------------------------------------------------------
(* Properties of sendSecretSantaEmail *)

\* The call was given an image payload that holds at least one byte.
PayloadGiven(call) == call.payload.present /\ Len(call.payload.items) > 0

\* The content ids the body of the message refers to.
ImageReferences(msg) == {msg.html.images[k] : k \in 1..Len(msg.html.images)}

\* C32: the message sendSecretSantaEmail hands to sgMail.send has an
\* attachment exactly when the call was given a non-empty image payload: then
\* there is one attachment, it holds the payload and the body refers to it;
\* with no payload or an empty one there is no attachment and the body refers
\* to no image.
C32_AttachmentIffPayload ==
    \A k \in 1..Len(outbox) :
        LET call == outbox[k]
            msg == call.msg
        IN  /\ Len(msg.attachments) > 0 <=> PayloadGiven(call)
            /\ PayloadGiven(call) =>
                  /\ Len(msg.attachments) = 1
                  /\ msg.attachments[1].content = call.payload.items
                  /\ ImageReferences(msg) = {msg.attachments[1].content_id}
            /\ ~PayloadGiven(call) =>
                  /\ Len(msg.attachments) = 0
                  /\ ImageReferences(msg) = {}

\* One call was made with no payload and one with an empty buffer, both sent
\* without attachment.
C32_Witness ==
    /\ Len(outbox) = 2
    /\ outbox[1].payload = Missing /\ outbox[1].ok /\ Len(outbox[1].msg.attachments) = 0
    /\ outbox[2].payload = Some(EmptyBuffer) /\ outbox[2].ok
    /\ Len(outbox[2].msg.attachments) = 0
    /\ ImageReferences(outbox[2].msg) = {}

\* A call was made with a picture, sent with the picture attached.
C32_AttachedWitness ==
    \E k \in 1..Len(outbox) :
        /\ outbox[k].payload = Some(Png) /\ outbox[k].ok
        /\ Len(outbox[k].msg.attachments) = 1
        /\ outbox[k].msg.attachments[1].content = Png

=============================================================================
